---- MODULE Spec2Model ----
(***************************************************************************)
(* CourseLynx Messenger (browser extension): the claim / send / mark-sent  *)
(* pipeline.  Several extension instances (popup + content script +        *)
(* background token cache each) share one remote claim table.             *)
(*                                                                         *)
(* One course and one term are modelled; a SendUnit is then identified by  *)
(* its section id (JS null, here NULL, for the course-wide unit).          *)
(***************************************************************************)
EXTENDS Integers, Sequences, FiniteSets, TLC

(* ------------------------------ bounds --------------------------------- *)
\* runs of handleSendLinkForCourse started in one behaviour (all instances)
MaxRuns == 2
\* failures the environment injects (RPC errors, failed fetches, non-2xx POSTs)
MaxFaults == 2
\* network events the token observer sees
MaxObs == 3
\* developer-panel button presses (Claim / Mark Sent / Release)
MaxDevOps == 3
\* failures the environment injects into the run of the retry specification
MaxRetryFaults == 3
\* attempts of one retry loop the model follows (the code's loops stop far earlier)
MaxAttempts == 4
\* changes of the token cache while the run of the rotation specification sends
MaxRotations == 2
\* students enrolled in the course beyond one full request
RosterExtra == 1
\* largest roster of the batch-size sweep
MaxRoster == 205

Inst == {1, 2}
Tokens == {"t1", "t2"}

(* ------------------------- program constants --------------------------- *)
NULL == -1                 \* JS null / undefined for ids and statuses
NoToken == "null"          \* JS null for token strings
ABORT == -2                \* a fetch that the timeout aborted (no status)
MAX_PER_REQUEST == 90
EARLIER_CHUNK == 100
RETRIES == 2
POST_ATTEMPTS == 3

Senders == {"capped", "earlier"}
Cap(sender) == IF sender = "capped" THEN MAX_PER_REQUEST ELSE EARLIER_CHUNK

\* what the conversations endpoint (or the transport) may answer to one POST
Statuses == {200, 422, 503, 404, NULL}

(* ------------------------------ helpers -------------------------------- *)
Range(s) == {s[x] : x \in 1..Len(s)}

RECURSIVE SelectSeqBy(_, _)
\* Array.prototype.filter with a membership test
SelectSeqBy(s, keep) ==
  IF s = <<>> THEN <<>>
  ELSE (IF Head(s) \in keep THEN <<Head(s)>> ELSE <<>>) \o SelectSeqBy(Tail(s), keep)

(* ------------------------- popup.js: term keys ------------------------- *)
\* A string is the sequence of its characters; NoName is a name that is missing
\* (null or undefined).
NoName == <<"null">>
\* the lower-case letter of each upper-case letter
Lower ==
  LET U == <<"A", "B", "C", "D", "E", "F", "G", "H", "I", "J", "K", "L", "M",
             "N", "O", "P", "Q", "R", "S", "T", "U", "V", "W", "X", "Y", "Z">>
      L == <<"a", "b", "c", "d", "e", "f", "g", "h", "i", "j", "k", "l", "m",
             "n", "o", "p", "q", "r", "s", "t", "u", "v", "w", "x", "y", "z">>
  IN [c \in Range(U) |-> L[CHOOSE u \in 1..Len(U) : U[u] = c]]
Lowers == {Lower[c] : c \in DOMAIN Lower}
Digits == {"0", "1", "2", "3", "4", "5", "6", "7", "8", "9"}
LowerAlnum == Lowers \cup Digits
WordChars == LowerAlnum \cup DOMAIN Lower \cup {"_"}
IsSpace(c) == c \in {" ", "\t"}
\* [a-z0-9]
IsLowerAlnum(c) == c \in LowerAlnum
\* \w
IsWord(c) == c \in WordChars
\* JS truthiness of a name
Truthy(name) == name # NoName /\ name # <<>>

\* Each string operator binds its argument once (`str \in {s}`), so that the
\* argument is a value wherever the operator is evaluated.

\* the string without its leading characters that pass the test
DropWhile(s, Test(_)) ==
  CHOOSE out \in
    { IF \A k \in 1..Len(str) : Test(str[k]) THEN <<>>
      ELSE SubSeq(str, CHOOSE k \in 1..Len(str) :
                         ~Test(str[k]) /\ \A j \in 1..(k - 1) : Test(str[j]),
                  Len(str)) : str \in {s} } : TRUE

\* the string without its leading and its trailing characters that pass the test
Strip(s, Test(_)) ==
  CHOOSE out \in
    { IF \A k \in 1..Len(str) : Test(str[k]) THEN <<>>
      ELSE SubSeq(str,
                  CHOOSE k \in 1..Len(str) :
                    ~Test(str[k]) /\ \A j \in 1..(k - 1) : Test(str[j]),
                  CHOOSE k \in 1..Len(str) :
                    ~Test(str[k]) /\ \A j \in (k + 1)..Len(str) : Test(str[j])) :
        str \in {s} } : TRUE

\* String.prototype.trim
Trim(s) == Strip(s, IsSpace)

\* String.prototype.toLowerCase
ToLowerCase(s) ==
  CHOOSE out \in
    { [k \in 1..Len(str) |->
         IF str[k] \in DOMAIN Lower THEN Lower[str[k]] ELSE str[k]] : str \in {s} } : TRUE

RECURSIVE SpringYear(_)
\* .replace(/spring\s*'?([0-9]{2})\b/g, "spring 20$1"): the leftmost match is
\* replaced, then the matches of what follows it
SpringYear(s) ==
  CHOOSE out \in
    { LET word == <<"s", "p", "r", "i", "n", "g">>
          \* what follows "spring", its blanks and one apostrophe at position p
          Year(p) ==
            LET rest == DropWhile(SubSeq(str, p + 6, Len(str)), IsSpace)
            IN IF rest # <<>> /\ Head(rest) = "'" THEN Tail(rest) ELSE rest
          Hit(p) ==
            /\ SubSeq(str, p, p + 5) = word
            /\ Len(Year(p)) >= 2 /\ Year(p)[1] \in Digits /\ Year(p)[2] \in Digits
            /\ (Len(Year(p)) > 2 => ~IsWord(Year(p)[3]))
          hits == {p \in 1..(Len(str) - 5) : Hit(p)}
      IN IF hits = {} THEN str
         ELSE LET p == CHOOSE p \in hits : \A q \in hits : p <= q
              IN SubSeq(str, 1, p - 1) \o word \o <<" ", "2", "0", Year(p)[1], Year(p)[2]>>
                   \o SpringYear(SubSeq(Year(p), 3, Len(Year(p)))) : str \in {s} } : TRUE

\* .replace(/[^a-z0-9]+/g, "-"): each run of other characters becomes one hyphen
Hyphenate(s) ==
  CHOOSE out \in
    { SelectSeq([k \in 1..Len(str) |->
                   IF IsLowerAlnum(str[k]) THEN str[k]
                   ELSE IF k > 1 /\ ~IsLowerAlnum(str[k - 1]) THEN ""
                   ELSE "-"],
                LAMBDA c : c # "") : str \in {s} } : TRUE

\* .replace(/^-+|-+$/g, "")
StripHyphens(s) == Strip(s, LAMBDA c : c = "-")

\* toTermKey(label)
toTermKey(label) ==
  StripHyphens(Hyphenate(SpringYear(ToLowerCase(Trim(
    IF Truthy(label) THEN label ELSE <<>>)))))

\* getTermLabel(c): c?.enrollment_term?.name || c?.term?.name || ""
getTermLabel(c) ==
  IF Truthy(c.enrollment_term) THEN c.enrollment_term
  ELSE IF Truthy(c.term) THEN c.term
  ELSE <<>>

\* the default label of computeCourseAvailability
Fall2025 == <<"F", "a", "l", "l", " ", "2", "0", "2", "5">>
\* the default label of the developer panel
Spring2023 == <<"S", "p", "r", "i", "n", "g", " ", "2", "0", "2", "3">>

\* computeCourseAvailability: toTermKey(getTermLabel(course) || "Fall 2025")
AvailabilityTermKey(c) ==
  toTermKey(IF Truthy(getTermLabel(c)) THEN getTermLabel(c) ELSE Fall2025)

\* handleSendLinkForCourse and collectRemainingSectionIds:
\* toTermKey(getTermLabel(course))
SendTermKey(c) == toTermKey(getTermLabel(c))

\* devClaimCourse: toTermKey(getTermLabel(course) || "Spring 2023")
DevTermKey(c) ==
  toTermKey(IF Truthy(getTermLabel(c)) THEN getTermLabel(c) ELSE Spring2023)

(* --------------------------- remote datastore -------------------------- *)
\* A row of courselynx_sends: [id, section_id, term_key, status].
\* courselynx_claim: atomic insert-or-return-existing on the unit.
DbClaim(rows, nextId, section_id, term_key) ==
  IF \E r \in rows : r.section_id = section_id /\ r.term_key = term_key
  THEN LET r == CHOOSE r \in rows : r.section_id = section_id /\ r.term_key = term_key
       IN [rows |-> rows, nextId |-> nextId,
           out |-> <<[id |-> r.id, already_exists |-> TRUE, status |-> r.status]>>]
  ELSE [rows |-> rows \cup {[id |-> nextId, section_id |-> section_id,
                             term_key |-> term_key, status |-> "pending"]},
        nextId |-> nextId + 1,
        out |-> <<[id |-> nextId, already_exists |-> FALSE, status |-> "pending"]>>]

\* courselynx_mark_sent: the row with this id becomes sent.
DbMarkSent(rows, id) ==
  {IF r.id = id THEN [r EXCEPT !.status = "sent"] ELSE r : r \in rows}

\* courselynx_release_claim: deletes the row with this id if it is still pending.
DbReleaseClaim(rows, id) ==
  {r \in rows : ~(r.id = id /\ r.status = "pending")}

(* ------------------------------- db.js --------------------------------- *)
\* claimCourse reading the flag under a name the response does not carry
claimCourse_flagLost(rows, nextId, payload) ==
  LET res == DbClaim(rows, nextId, payload.sectionId, payload.termKey)
  IN [rows |-> res.rows, nextId |-> res.nextId,
      claim |-> [res.out[1] EXCEPT !.already_exists = FALSE]]

\* claimCourse: one RPC; returns rows?.[0] || null
claimCourse(rows, nextId, payload) ==
  LET res == DbClaim(rows, nextId, payload.sectionId, payload.termKey)
  IN [rows |-> res.rows, nextId |-> res.nextId,
      claim |-> IF Len(res.out) >= 1 THEN res.out[1]
                ELSE [id |-> NULL, already_exists |-> FALSE, status |-> "null"]]

markSent(rows, id) == DbMarkSent(rows, id)

\* releaseClaim deleting the row itself instead of calling the guarded RPC
releaseClaim_delete(rows, id) == {r \in rows : r.id # id}

\* releaseClaim whose RPC argument goes missing, so that no row matches
releaseClaim_noArg(rows, id) == DbReleaseClaim(rows, NULL)

\* releaseClaim: rpc("courselynx_release_claim", { _id: id })
releaseClaim(rows, id) == DbReleaseClaim(rows, id)

\* a select that leaves out the rows still pending
getCourseSends_sentOnly(rows, termKey) ==
  {r \in rows : r.term_key = termKey /\ r.status = "sent"}

\* getCourseSends: the rows of the course with term_key=eq.<termKey>
getCourseSends(rows, termKey) == {r \in rows : r.term_key = termKey}

(* --------------------------- the LMS course ---------------------------- *)
SelfId == 7000             \* the caller's own user id
TestStudentId == 7001      \* a placeholder account, marked by sis_user_id
TestNamedId == 7002        \* a placeholder account, marked by its name

Student(id) == [id |-> id, sis_test |-> FALSE, name_test |-> FALSE]

\* GET /courses/:id/users?enrollment_type[]=student&enrollment_state[]=active:
\* the rows of all pages, in order.  A listing has `size` students; a dirty one
\* also lists the caller, two placeholder accounts and its first student twice.
CourseUsers(roster) ==
  LET students == [x \in 1..roster.size |-> Student(x)]
  IN IF roster.dirty
     THEN << Student(SelfId),
             [id |-> TestStudentId, sis_test |-> TRUE, name_test |-> FALSE] >>
          \o students \o
          << [id |-> TestNamedId, sis_test |-> FALSE, name_test |-> TRUE] >>
          \o (IF roster.size > 0 THEN << Student(1) >> ELSE << >>)
     ELSE students

(* ---------------------------- content script --------------------------- *)
\* Array.from(new Set(arr.map(Number).filter(Number.isFinite))):
\* the first occurrence of every value, in order (a Set as large as the array
\* drops nothing)
\* uniqueInts without the Set: duplicates stay
uniqueInts_keepAll(arr) == arr

uniqueInts(arr) ==
  IF Cardinality(Range(arr)) = Len(arr) THEN arr
  ELSE LET first == SelectSeq([x \in 1..Len(arr) |-> x],
                              LAMBDA x : \A y \in 1..(x - 1) : arr[y] # arr[x])
       IN [x \in 1..Len(first) |-> arr[first[x]]]

MapId(rows) == [x \in 1..Len(rows) |-> rows[x].id]

\* the .filter callback of the capped sender (self, test student excluded)
FilterUsers(rows, myId) ==
  SelectSeq(rows, LAMBDA u : /\ ~(myId # NULL /\ u.id = myId)
                             /\ ~u.sis_test
                             /\ ~u.name_test)

\* fetchStudentUserIdsForCourse, per sender version; the capped sender's
\* sendLinkToCourseStudents applies uniqueInts once more
fetchStudentUserIdsForCourse(sender, rows, myId) ==
  IF sender = "capped"
  THEN uniqueInts(uniqueInts(MapId(FilterUsers(rows, myId))))
  ELSE uniqueInts(SelectSeq(MapId(rows), LAMBDA id : id # 0 /\ id # NULL))

\* the recipient ids a run works on: the roster as fetched with this profile id
Ids(e, myId) == fetchStudentUserIdsForCourse(e.sender, CourseUsers(e.roster), myId)

Min(a, b) == IF a <= b THEN a ELSE b

\* An array cut from the ids is kept as the index range [from, to] it covers.
Whole(arr) == [from |-> 1, to |-> Len(arr)]
Length(sl) == sl.to - sl.from + 1
\* arr.slice(start, end)
Slice(sl, start, end) == [from |-> sl.from + start, to |-> Min(sl.from + end - 1, sl.to)]
\* the elements of such an array
Elements(e, myId, sl) == SubSeq(Ids(e, myId), sl.from, sl.to)

\* chunk with slices one element too long: arr.slice(i, i + n + 1)
chunk_longSlice(arr, n) ==
  [b \in 1..((Length(arr) + n - 1) \div n) |-> Slice(arr, (b - 1) * n, b * n + 1)]

\* for (i = 0; i < arr.length; i += n) out.push(arr.slice(i, i + n)):
\* iteration b (from 1) pushes arr.slice((b-1)*n, b*n)
chunk(arr, n) ==
  [b \in 1..((Length(arr) + n - 1) \div n) |-> Slice(arr, (b - 1) * n, b * n)]

\* sendConversationChunk: the capped sender trims an oversized chunk
sendConversationChunk(sender, recipientIds) ==
  IF sender = "capped" /\ Length(recipientIds) > MAX_PER_REQUEST
  THEN Slice(recipientIds, 0, MAX_PER_REQUEST)
  ELSE recipientIds

\* postConversation's guards: TRUE when the capped sender refuses to POST
PostRefused(sender, recipientIds) ==
  sender = "capped"
    /\ (Length(recipientIds) = 0 \/ Length(recipientIds) > MAX_PER_REQUEST)

\* an Error: its kind, and its HTTP status (NULL when it carries none)
Err(kind, status) == [kind |-> kind, status |-> status]
NoErr == Err("none", NULL)

\* shouldRetry without 429 in its list
shouldRetry_no429(err) ==
  \/ err.kind = "abort"
  \/ err.status = NULL
  \/ err.status \in {500, 502, 503, 504}

shouldRetry(err) ==
  \/ err.kind = "abort"
  \/ err.status = NULL
  \/ err.status \in {429, 500, 502, 503, 504}

(* ----------------------- content script: origin ------------------------ *)
\* `location` of the tab: the protocol and the host, the host as its labels
Page(protocol, host) == [protocol |-> protocol, host |-> host]
LmsPage == Page("https:", <<"school", "instructure", "com">>)
BrandedPage == Page("https:", <<"canvas", "school", "edu">>)
OtherPage == Page("https:", <<"www", "example", "com">>)
Pages ==
  {LmsPage, BrandedPage, OtherPage,
   Page("http:", <<"school", "instructure", "com">>),
   Page("https:", <<"instructure", "com">>),
   Page("https:", <<"mycanvas", "school", "edu">>)}

\* host.endsWith(".instructure.com")
EndsWithInstructure(host) ==
  /\ Len(host) >= 3
  /\ host[Len(host) - 1] = "instructure"
  /\ host[Len(host)] = "com"

\* /^(canvas|learn|webcourses|bruinlearn)\./i.test(host)
BrandedPrefix(host) ==
  /\ Len(host) >= 2
  /\ host[1] \in {"canvas", "learn", "webcourses", "bruinlearn"}

isCanvasOrigin(location) ==
  IF location.protocol # "https:" THEN FALSE
  ELSE IF EndsWithInstructure(location.host) THEN TRUE
  ELSE BrandedPrefix(location.host)

(* ------------------------ popup.js: progress model --------------------- *)
\* the courses of the list and the largest number of batches of one course
CourseIds == {1, 2}
MaxChunks == 2

\* perCourse.get(courseId) is undefined
NoEntry == [has |-> FALSE, totalChunks |-> 0, sentChunks |-> 0]
\* progressModel after resetProgressModel()
EmptyModel ==
  [totalChunksPlanned |-> 0, sentChunks |-> 0, perCourse |-> [c \in CourseIds |-> NoEntry]]

\* no batch send started yet: `n` counts the clicks, `courses` are the selected
\* course ids in order, `chunks` the number of batches of each course, `cur`
\* and `step` the position of the sender, `sent` the events emitted so far
NoSession ==
  [n |-> 0, courses |-> <<>>, chunks |-> [c \in CourseIds |-> 0], cur |-> 1, step |-> 0,
   sent |-> {}]

SendPlan(courseId, totalChunks) ==
  [type |-> "SEND_PLAN", courseId |-> courseId, chunk |-> 0, totalChunks |-> totalChunks]
SendChunkDone(courseId, b, totalChunks) ==
  [type |-> "SEND_CHUNK_DONE", courseId |-> courseId, chunk |-> b, totalChunks |-> totalChunks]

RECURSIVE Sum(_, _)
Sum(f, S) == IF S = {} THEN 0 ELSE LET c == CHOOSE c \in S : TRUE IN f[c] + Sum(f, S \ {c})

\* recomputeSentChunks(): the sum of sentChunks over the entries of perCourse
recomputeSentChunks(pm) ==
  [pm EXCEPT !.sentChunks =
     Sum([c \in CourseIds |-> pm.perCourse[c].sentChunks], {c \in CourseIds : pm.perCourse[c].has})]

\* a listener that takes the chunk of the last event
SentAfter_last(prev, b) == b

\* Math.max(pc.sentChunks || 0, chunk || 0)
SentAfter(prev, b) == IF prev >= b THEN prev ELSE b

\* the listener's SEND_PLAN branch
OnSendPlan(pm, msg) ==
  LET pc == pm.perCourse[msg.courseId]
  IN IF pc.totalChunks = 0
     THEN [pm EXCEPT !.perCourse[msg.courseId] =
                       [has |-> TRUE, totalChunks |-> msg.totalChunks, sentChunks |-> pc.sentChunks],
                     !.totalChunksPlanned = @ + msg.totalChunks]
     ELSE [pm EXCEPT !.perCourse[msg.courseId].has = TRUE]

\* the listener's SEND_CHUNK_DONE branch
OnSendChunkDone(pm, msg) ==
  LET old == pm.perCourse[msg.courseId]
      pc == IF old.has THEN old
            ELSE [has |-> TRUE, totalChunks |-> msg.totalChunks, sentChunks |-> 0]
      added == IF old.has THEN 0 ELSE pc.totalChunks
  IN recomputeSentChunks(
       [pm EXCEPT !.perCourse[msg.courseId] =
                    [pc EXCEPT !.sentChunks = SentAfter(pc.sentChunks, msg.chunk)],
                  !.totalChunksPlanned = @ + added])

(* -------------------------------- state -------------------------------- *)
VARIABLES
  db,        \* the remote claim table: [rows, nextId]
  env,       \* the course on the LMS and the content-script version in use
  tab,       \* per instance: the last command the tab's content script answered (history)
  session,   \* per instance: the batch send of the selected courses and its progress events
  progressModel, \* per instance: the chunk-based progress model of the popup
  budget,    \* what the environment may still do: [runs, faults, obs, devOps]
  popup,     \* per instance: the locals of handleSendLinkForCourse and its position
  content,   \* per instance: the locals of sendLinkToCourseStudents / postConversation
  storage,   \* per instance: chrome.storage.local, [csrfHeader, csrfCookie]
  observed,  \* per instance: the last event the token observer handled (history)
  dev,       \* per instance: st.dataset.claimId of the developer panel
  avail,     \* per instance: the last result of computeCourseAvailability
  trace,     \* per instance: what the current run has done so far (history)
  log        \* history shared by all: claim responses, POSTs, releases

vars == <<db, env, tab, session, progressModel, budget, popup, content, storage, observed, dev, avail, trace, log>>

IdlePopup ==
  [pc |-> "idle", run |-> 0, cachedUser |-> FALSE, sectionIds |-> <<>>, idx |-> 0,
   claims |-> <<>>, termKey |-> NoName, csrfToken |-> NoToken,
   sendResp |-> [ok |-> FALSE, totalRecipients |-> 0, chunks |-> 0, error |-> NoErr],
   result |-> "none", thrown |-> NoErr]

IdleContent ==
  [myId |-> NULL, batches |-> <<>>, i |-> 0, attempt |-> 0, pattempt |-> 0, lastErr |-> NoErr]

NoTrace ==
  [allTaken |-> FALSE, claimRpcs |-> 0, csrfAsked |-> FALSE, noToken |-> FALSE,
   rosterFetched |-> FALSE, posted |-> 0, released |-> <<>>, marked |-> <<>>,
   gets |-> <<>>, claimOrder |-> <<>>, events |-> <<>>,
   asked |-> [csrfHeader |-> NoToken, csrfCookie |-> NoToken]]

\* no event yet: `cleared` tells whether a clear is the last change of the cache
\* ("wiped" when it removed a value), `src`, `api` and `value` describe the last
\* request or response the listeners saw
NoEvent == [cleared |-> "no", src |-> "none", api |-> FALSE, value |-> NoToken]

\* no availability computed yet; `remaining` are the units counted as available
\* and `units` the units that had a row when the result was computed (history)
NoAvail == [termKey |-> NoName, totalSections |-> 0, availableSections |-> 0,
            remaining |-> {}, units |-> {}]

\* no command answered yet; a response is the object handed to sendResponse, with
\* the names of its fields: one without `ok` reads as not ok
NoResponse == [fields |-> {}, ok |-> FALSE, error |-> NoErr]
NoCommand == [cmd |-> "none", page |-> LmsPage, response |-> NoResponse, requests |-> 0]

\* a course of the term "Fall 2025", as the LMS lists it with include[]=term
Course(sections, sender, size, dirty, answers) ==
  [sections |-> sections, sender |-> sender,
   roster |-> [size |-> size, dirty |-> dirty], answers |-> answers,
   silent |-> FALSE, enrollment_term |-> NoName, term |-> Fall2025,
   events |-> "delivered", pages |-> {LmsPage, OtherPage}]

InitWith(courses, runs, faults, obs, devOps, csrfHeader) ==
  /\ db = [rows |-> {}, nextId |-> 1]
  /\ env \in courses
  /\ tab = [i \in Inst |-> NoCommand]
  /\ session = [i \in Inst |-> NoSession]
  /\ progressModel = [i \in Inst |-> EmptyModel]
  /\ budget = [runs |-> runs, faults |-> faults, obs |-> obs, devOps |-> devOps]
  /\ popup = [i \in Inst |-> IdlePopup]
  /\ content = [i \in Inst |-> IdleContent]
  /\ storage = [i \in Inst |-> [csrfHeader |-> csrfHeader, csrfCookie |-> NoToken]]
  /\ observed = [i \in Inst |-> NoEvent]
  /\ dev = [i \in Inst |-> NULL]
  /\ avail = [i \in Inst |-> NoAvail]
  /\ trace = [i \in Inst |-> NoTrace]
  /\ log = [claims |-> {}, posts |-> {}, releases |-> {}, freed |-> {}, sent |-> {},
            calls |-> {}, leaked |-> {}]

\* the courses of the concurrent runs: two sections and a roster of two batches
\* under either sender; no sections and a small roster; an empty roster
Courses ==
  { Course(<<10, 20>>, sender, Cap(sender) + RosterExtra, FALSE, {200, 404, 503}) :
      sender \in Senders }
  \cup { Course(<<>>, "capped", 2, TRUE, {200, 404, 503}),
         Course(<<10>>, "earlier", 0, FALSE, {200, 404, 503}) }

\* two instances whose token caches already hold a header token
Init == InitWith(Courses, MaxRuns, MaxFaults, 0, 0, "t1")

\* an outcome that is a failure uses up one of the failures the environment may inject
\* (a budget of Unlimited is never used up)
Unlimited == -1
Fault(o, good) == o \in good \/ budget.faults # 0
Spend(o, good) ==
  IF o \in good \/ budget.faults = Unlimited THEN budget
  ELSE [budget EXCEPT !.faults = @ - 1]

\* the outcomes of a datastore call: rpc and dbSelect await a plain fetch, so
\* where the datastore may stay silent the call may never settle
Outcomes(settled) == IF env.silent THEN settled \cup {"no_response"} ELSE settled
\* the run waits on an await that never settles
Blocked(p) == [p EXCEPT !.pc = "blocked"]

\* the run ends: `return` with a status text, or an exception reaching the click handler
Return(p, text) == [p EXCEPT !.pc = "done", !.result = text]
Throw(p, e) == [p EXCEPT !.pc = "done", !.result = "thrown", !.thrown = e]

(* ------------------------------ history -------------------------------- *)
StatusOf(rows, id) ==
  IF \E r \in rows : r.id = id THEN (CHOOSE r \in rows : r.id = id).status ELSE "absent"

\* a claim response as its caller received it; `freed` is the id of the pending
\* row of this unit that a release removed just before (NULL if none)
LogClaim(i, run, sid, claim) ==
  [log EXCEPT
     !.claims = @ \cup
       {[inst |-> i, run |-> run, sid |-> sid, id |-> claim.id,
         already_exists |-> claim.already_exists, status |-> claim.status,
         freed |-> IF \E f \in log.freed : f.sid = sid
                   THEN (CHOOSE f \in log.freed : f.sid = sid).id ELSE NULL]},
     !.freed = {f \in @ : f.sid # sid}]

\* a release RPC that reached the datastore, and the state its row was in
LogRelease(i, id) ==
  [log EXCEPT
     !.releases = @ \cup {[id |-> id, was |-> StatusOf(db.rows, id)]},
     !.calls = @ \cup {[inst |-> i, op |-> "release", id |-> id]},
     !.freed = @ \cup
       {[sid |-> IF r.section_id = NULL THEN 0 ELSE r.section_id, id |-> id] :
          r \in {r \in db.rows : r.id = id /\ r.status = "pending"}}]

\* a markSent RPC that reached the datastore and found its row
LogSent(i, id) ==
  [log EXCEPT !.sent = @ \cup {r.id : r \in {r \in db.rows : r.id = id}},
              !.calls = @ \cup {[inst |-> i, op |-> "markSent", id |-> id]}]

\* the POSTs of the current run of instance i
PostsOf(i) == {q \in log.posts : q.inst = i /\ q.run = popup[i].run}

(* ------------------------------ popup.js ------------------------------- *)
\* sendSelectedBtn click handler reaching handleSendLinkForCourse(course)
StartRun(i) ==
  /\ popup[i].pc \in {"idle", "done"}
  /\ budget.runs > 0
  \* the instances are interchangeable: the lower-numbered one starts first
  /\ \A j \in Inst : j < i => popup[j].run > 0
  /\ budget' = [budget EXCEPT !.runs = @ - 1]
  /\ popup' = [popup EXCEPT ![i] =
       [IdlePopup EXCEPT !.pc = "collect", !.run = popup[i].run + 1,
                         !.cachedUser = popup[i].cachedUser,
                         !.termKey = SendTermKey(env)]]
  /\ content' = [content EXCEPT ![i] = IdleContent]
  /\ trace' = [trace EXCEPT ![i] = NoTrace]
  /\ UNCHANGED <<db, env, session, progressModel, tab, storage, observed, dev, avail, log>>

\* the section ids without the [0] of a course that has no sections
AllSectionIds_noSentinel(sections) == sections

\* sections.length ? sections.map(s => Number(s.id)) : [0]
AllSectionIds(sections) == IF Len(sections) > 0 THEN sections ELSE <<0>>

\* the claimed set without the null-to-0 canonicalisation
ClaimedSet_rawNull(rows) == {r.section_id : r \in rows}

\* new Set(rows.map(r => r.section_id === null ? 0 : Number(r.section_id)))
ClaimedSet(rows) == {IF r.section_id = NULL THEN 0 ELSE r.section_id : r \in rows}

\* collectRemainingSectionIds: FETCH_SECTIONS, then getCourseSends, then the filter
RemainingSectionIds(sections, rows) ==
  LET all == AllSectionIds(sections)
      claimed == ClaimedSet(rows)
  IN SelectSeqBy(all, Range(all) \ claimed)

CollectRemaining(i) ==
  /\ popup[i].pc = "collect"
  /\ \E o \in Outcomes({"ok", "sections_failed", "select_failed"}) :
       /\ Fault(o, {"ok"})
       /\ budget' = Spend(o, {"ok"})
       /\ popup' = [popup EXCEPT ![i] =
            IF o = "no_response" THEN Blocked(@)
            ELSE IF o = "ok"
            THEN LET rows == getCourseSends(db.rows, SendTermKey(env))
                     sectionIds == RemainingSectionIds(env.sections, rows)
                 IN IF Len(sectionIds) = 0
                    THEN Return(@, "Already sent for all sections.")
                    ELSE [@ EXCEPT !.pc = "profile", !.sectionIds = sectionIds]
            ELSE Throw(@, Err(o, NULL))]
       /\ trace' = [trace EXCEPT ![i].allTaken =
            o = "ok" /\ \A sid \in Range(AllSectionIds(env.sections)) :
                          \E r \in db.rows : r.section_id = (IF sid = 0 THEN NULL ELSE sid)]
  /\ UNCHANGED <<db, env, session, progressModel, tab, content, storage, observed, dev, avail, log>>

\* getCurrentUser: `tab` is a free identifier there; it resolves against the
\* globals of the popup page, so the lookup yields a profile or throws.
getCurrentUser(i) ==
  /\ popup[i].pc = "profile"
  /\ \E o \in {"ok", "throws"} :
       /\ Fault(o, {"ok"})
       /\ (o = "throws" => ~popup[i].cachedUser)
       /\ budget' = Spend(o, {"ok"})
       /\ popup' = [popup EXCEPT ![i] =
            IF o = "ok"
            THEN [@ EXCEPT !.pc = "claim", !.idx = 1, !.cachedUser = TRUE]
            ELSE Throw(@, Err("profile", NULL))]
  /\ UNCHANGED <<db, env, session, progressModel, tab, content, storage, observed, dev, avail, trace, log>>

\* the claim loop walking the list from its end
ClaimTarget_reversed(sectionIds, idx) == sectionIds[Len(sectionIds) - idx + 1]

\* `for (const sid of sectionIds)`: the unit of iteration idx
ClaimTarget(sectionIds, idx) == sectionIds[idx]

\* the test without its `!claim.already_exists` half
Won_anyResponse(claim) == claim.id # NULL

\* if (claim && !claim.already_exists)
Won(claim) == claim.id # NULL /\ ~claim.already_exists

\* one iteration of `for (const sid of sectionIds)` and, after the last one,
\* the `if (!claims.length)` test
ClaimStep(i) ==
  /\ popup[i].pc = "claim"
  /\ LET p == popup[i]
         sid == ClaimTarget(p.sectionIds, p.idx)
         res == claimCourse(db.rows, db.nextId,
                            [sectionId |-> IF sid = 0 THEN NULL ELSE sid,
                             termKey |-> p.termKey])
         claim == res.claim
         last == p.idx = Len(p.sectionIds)
     IN \E o \in Outcomes({"ok", "rpc_failed"}) :
          LET won == o = "ok" /\ Won(claim)
              claims == IF won THEN Append(p.claims, [sectionId |-> sid, claimId |-> claim.id])
                        ELSE p.claims
          IN /\ Fault(o, {"ok"})
             /\ budget' = Spend(o, {"ok"})
             /\ db' = IF o = "ok" THEN [rows |-> res.rows, nextId |-> res.nextId] ELSE db
             /\ popup' = [popup EXCEPT ![i] =
                  IF o = "no_response" THEN Blocked(@)
                  ELSE IF last /\ Len(claims) = 0
                  THEN Return([@ EXCEPT !.claims = claims],
                              "Nothing to send - all sections claimed.")
                  ELSE [@ EXCEPT !.claims = claims, !.idx = IF last THEN 0 ELSE p.idx + 1,
                                 !.pc = IF last THEN "csrf" ELSE "claim"]]
             /\ trace' = [trace EXCEPT ![i].claimRpcs = @ + 1,
                                        ![i].claimOrder = Append(@, sid)]
             /\ log' = IF o = "ok" THEN LogClaim(i, p.run, sid, claim) ELSE log
  /\ UNCHANGED <<env, session, progressModel, tab, content, storage, observed, dev, avail>>

(* ---------------------------- background.js ---------------------------- *)
\* the resolution with its two sources swapped
Chosen_cookieFirst(st) ==
  IF st.csrfCookie # NoToken THEN st.csrfCookie
  ELSE IF st.csrfHeader # NoToken THEN st.csrfHeader
  ELSE NoToken

\* GET_LATEST_CSRF: header value, else cookie value, else null
Chosen(st) ==
  IF st.csrfHeader # NoToken THEN st.csrfHeader
  ELSE IF st.csrfCookie # NoToken THEN st.csrfCookie
  ELSE NoToken

\* the `_csrf_token` values seen in Set-Cookie headers, as sent on the wire
RawCookies == {"t1", "t%32", "t%"}

\* decodeURIComponent(raw), falling back to raw when it throws
DecodeCookie(raw) ==
  CASE raw = "t%32" -> "t2"
    [] raw = "t%" -> "t%"
    [] OTHER -> raw

\* chrome.webRequest.onBeforeSendHeaders listener
OnBeforeSendHeaders(i) ==
  /\ budget.obs > 0
  /\ budget' = [budget EXCEPT !.obs = @ - 1]
  /\ \E api \in BOOLEAN, found \in Tokens \cup {NoToken} :
       /\ storage' = IF api /\ found # NoToken
                     THEN [storage EXCEPT ![i].csrfHeader = found]
                     ELSE storage
       /\ observed' = [observed EXCEPT ![i] =
            [cleared |-> IF api /\ found # NoToken THEN "no" ELSE @.cleared,
             src |-> "header", api |-> api, value |-> found]]
  /\ UNCHANGED <<db, env, session, progressModel, tab, popup, content, dev, avail, trace, log>>

\* a cookie value written to both slots
StoreCookie_both(st, value) == [csrfHeader |-> value, csrfCookie |-> value]

\* chrome.storage.local.set({ csrfCookie: { value, seenAt } })
StoreCookie(st, value) == [st EXCEPT !.csrfCookie = value]

\* chrome.webRequest.onHeadersReceived listener: it is registered for every URL
\* of the domain and, unlike the request listener, never looks at the path
\* (`api` only records whether the response was one of an /api/ path)
OnHeadersReceived(i) ==
  /\ budget.obs > 0
  /\ budget' = [budget EXCEPT !.obs = @ - 1]
  /\ \E api \in BOOLEAN, match \in RawCookies \cup {NoToken} :
       /\ storage' = IF match # NoToken
                     THEN [storage EXCEPT ![i] = StoreCookie(@, DecodeCookie(match))]
                     ELSE storage
       /\ observed' = [observed EXCEPT ![i] =
            [cleared |-> IF match # NoToken THEN "no" ELSE @.cleared,
             src |-> "cookie", api |-> api, value |-> match]]
  /\ UNCHANGED <<db, env, session, progressModel, tab, popup, content, dev, avail, trace, log>>

\* the history entry of a clear
Cleared(st) ==
  [cleared |-> IF st.csrfHeader # NoToken \/ st.csrfCookie # NoToken THEN "wiped" ELSE "empty",
   src |-> "clear", api |-> FALSE, value |-> NoToken]

\* what the storage holds after remove(["csrfHeader"]) alone
Removed_headerOnly(st) == [st EXCEPT !.csrfHeader = NoToken]

\* what the storage holds after remove(["csrfHeader", "csrfCookie"])
Removed(st) == [csrfHeader |-> NoToken, csrfCookie |-> NoToken]

\* CLEAR_CSRF_CACHE
ClearCsrfCache(i) ==
  /\ budget.obs > 0
  /\ budget' = [budget EXCEPT !.obs = @ - 1]
  /\ storage' = [storage EXCEPT ![i] = Removed(@)]
  /\ observed' = [observed EXCEPT ![i] = Cleared(storage[i])]
  /\ UNCHANGED <<db, env, session, progressModel, tab, popup, content, dev, avail, trace, log>>

(* ----------------------- popup.js: token and send ---------------------- *)
\* the test that lets a null token through
MissingCsrf_never(csrf) == FALSE

\* if (!csrfResp?.csrf)
MissingCsrf(csrf) == csrf = NoToken

\* GET_LATEST_CSRF round trip and the `if (!csrfResp?.csrf)` test
GetLatestCsrf(i) ==
  /\ popup[i].pc = "csrf"
  /\ LET csrf == Chosen(storage[i])
     IN popup' = [popup EXCEPT ![i] =
          IF MissingCsrf(csrf) THEN Throw(@, Err("Missing CSRF", NULL))
          ELSE [@ EXCEPT !.pc = "send", !.csrfToken = csrf]]
  /\ trace' = [trace EXCEPT ![i].csrfAsked = TRUE,
                             ![i].asked = storage[i],
                             ![i].noToken = /\ storage[i].csrfHeader = NoToken
                                            /\ storage[i].csrfCookie = NoToken]
  /\ UNCHANGED <<db, env, session, progressModel, tab, budget, content, storage, observed, dev, avail, log>>

\* What chrome.runtime.sendMessage does with a progress event whose receiver
\* is there ("delivered"), is gone (its promise rejects, "rejected") or cannot
\* be reached at all (it throws, "thrown").
Deliveries == {"delivered", "rejected", "thrown"}

\* progressCb(note): the free-text note of batch b (0: "Fetching course students")
Note(b) == [type |-> "note", chunk |-> b]
\* SEND_PLAN
Plan == [type |-> "plan", chunk |-> 0]
\* SEND_CHUNK_DONE numbered from 0
ChunkDone_zeroBased(i) == [type |-> "done", chunk |-> i]
\* SEND_CHUNK_DONE after iteration i of the loop: chunk: i + 1
ChunkDone(i) == [type |-> "done", chunk |-> i + 1]

\* progressCb?.(...) is called outside any try: an exception of
\* the first statement of the router: the answer to a command received on a
\* page that is not a Canvas origin
NotCanvas ==
  [fields |-> {"ok", "error"}, ok |-> FALSE, error |-> Err("Not on a Canvas origin.", NULL)]

\* a router that answers PING before it tests the origin
Gate_pingFirst(cmd, page) == cmd # "PING" /\ ~isCanvasOrigin(page)

\* whether the router stops at its origin test
Gate(cmd, page) == ~isCanvasOrigin(page)

\* chrome.runtime.sendMessage leaves sendLinkToCourseStudents
NoteThrows == env.events = "thrown"

\* chrome.tabs.sendMessage(tab.id, SEND_LINK_TO_COURSE) reaching the router of
\* the content script, which first tests isCanvasOrigin() and then calls
\* sendLinkToCourseStudents, whose first statement is a progress note
SendMessage(i) ==
  /\ popup[i].pc = "send"
  /\ \E o \in {"ok", "channel_failed", "not_canvas"}, page \in env.pages :
       /\ o = "ok" => ~Gate("SEND_LINK_TO_COURSE", page)
       /\ o = "not_canvas" => Gate("SEND_LINK_TO_COURSE", page)
       /\ Fault(o, {"ok"})
       /\ budget' = Spend(o, {"ok"})
       /\ tab' = IF o = "channel_failed" THEN tab
                 ELSE [tab EXCEPT ![i] =
                        [cmd |-> "SEND_LINK_TO_COURSE", page |-> page, requests |-> 0,
                         response |-> IF o = "ok" THEN NoResponse ELSE NotCanvas]]
       /\ trace' = [trace EXCEPT ![i].events = IF o = "ok" THEN Append(@, Note(0)) ELSE @]
       /\ popup' = [popup EXCEPT ![i] =
            CASE o = "ok" /\ NoteThrows ->
                   [@ EXCEPT !.pc = "release", !.idx = 1,
                             !.sendResp = [ok |-> FALSE, totalRecipients |-> 0, chunks |-> 0,
                                           error |-> Err("event", NULL)]]
              [] o = "ok" /\ ~NoteThrows ->
                   [@ EXCEPT !.pc = IF env.sender = "capped" THEN "self" ELSE "roster"]
              [] o = "channel_failed" -> Throw(@, Err(o, NULL))
              [] o = "not_canvas" ->
                   [@ EXCEPT !.pc = "release", !.idx = 1,
                             !.sendResp = [ok |-> FALSE, totalRecipients |-> 0, chunks |-> 0,
                                           error |-> NotCanvas.error]]]
  /\ UNCHANGED <<db, env, session, progressModel, content, storage, observed, dev, avail, log>>

(* ------------------- content script: roster and batches ---------------- *)
\* the error one fetch turns into (fetchWithRetry), NoErr for 2xx
ErrOf(status) ==
  IF status = 200 THEN NoErr
  ELSE IF status = NULL THEN Err("network", NULL)
  ELSE IF status = ABORT THEN Err("abort", NULL)
  ELSE Err("http", status)

\* withRetries giving up one attempt early: `attempt + 1 === retries`
withRetries_early(attempt, e) ==
  IF ~shouldRetry(e) \/ attempt + 1 = RETRIES THEN "throw" ELSE "again"

\* withRetries without the `attempt === retries` test
withRetries_noCap(attempt, e) ==
  IF ~shouldRetry(e) THEN "throw" ELSE "again"

\* what withRetries does with an error thrown by the wrapped call:
\* "again" (attempt++) or "throw"
withRetries(attempt, e) ==
  IF ~shouldRetry(e) \/ attempt = RETRIES THEN "throw" ELSE "again"

\* fetchCurrentUserProfile: one GET /users/self/profile of fetchWithRetry under
\* its default policy, and what withRetries does with its answer; a profile
\* that cannot be fetched is caught and leaves myId null
FetchProfile(i) ==
  /\ popup[i].pc = "self"
  /\ content[i].attempt <= MaxAttempts
  /\ \E status \in env.answers :
       LET e == ErrOf(status)
           d == IF e = NoErr THEN "ok" ELSE withRetries(content[i].attempt, e)
       IN /\ Fault(status, {200})
          /\ budget' = Spend(status, {200})
          /\ content' = [content EXCEPT ![i] =
               CASE d = "ok" -> [@ EXCEPT !.myId = SelfId, !.attempt = 0]
                 [] d = "again" -> [@ EXCEPT !.attempt = @ + 1]
                 [] OTHER -> [@ EXCEPT !.myId = NULL, !.attempt = 0]]
          /\ popup' = [popup EXCEPT ![i].pc = IF d = "again" THEN "self" ELSE "roster"]
          /\ trace' = [trace EXCEPT ![i].gets = Append(@, status)]
  /\ UNCHANGED <<db, env, session, progressModel, tab, storage, observed, dev, avail, log>>

(* ------------------- content script: other commands ------------------- *)
\* the commands of the router besides SEND_LINK_TO_COURSE that the popup sends
Commands == {"PING", "FETCH_SELF", "FETCH_COURSES_FILTERED", "FETCH_COURSES", "FETCH_SECTIONS"}

\* the answers of the LMS to the GETs of one fetchWithRetry call: every answer
\* but the last one is retried, the last one is a success or is thrown
Tries(answers) ==
  { s \in UNION { [1..n -> answers] : n \in 1..(RETRIES + 1) } :
      /\ \A k \in 1..(Len(s) - 1) :
           ErrOf(s[k]) # NoErr /\ withRetries(k - 1, ErrOf(s[k])) = "again"
      /\ \/ ErrOf(s[Len(s)]) = NoErr
         \/ withRetries(Len(s) - 1, ErrOf(s[Len(s)])) = "throw" }

\* what the handler of a command hands to sendResponse after its fetch
Answer(cmd, last) ==
  IF ErrOf(last) # NoErr THEN [fields |-> {"ok", "error"}, ok |-> FALSE, error |-> ErrOf(last)]
  ELSE IF cmd = "FETCH_SELF" THEN [fields |-> {"id", "name"}, ok |-> FALSE, error |-> NoErr]
  ELSE IF cmd = "FETCH_SECTIONS" THEN [fields |-> {"ok", "sections"}, ok |-> TRUE, error |-> NoErr]
  ELSE [fields |-> {"ok", "courses"}, ok |-> TRUE, error |-> NoErr]

\* chrome.runtime.onMessage listener of the content script for a command of the
\* popup: the origin test, then PING, FETCH_SELF, FETCH_COURSES_FILTERED,
\* FETCH_COURSES and FETCH_SECTIONS with the GETs their handlers issue
Router(i) ==
  /\ \E cmd \in Commands, page \in env.pages, s \in Tries(env.answers) :
       tab' = [tab EXCEPT ![i] =
         IF Gate(cmd, page)
         THEN [cmd |-> cmd, page |-> page, response |-> NotCanvas, requests |-> 0]
         ELSE IF cmd = "PING"
         THEN [cmd |-> cmd, page |-> page, requests |-> 0,
               response |-> [fields |-> {"ok"}, ok |-> TRUE, error |-> NoErr]]
         ELSE [cmd |-> cmd, page |-> page, requests |-> Len(s),
               response |-> Answer(cmd, s[Len(s)])]]
  /\ UNCHANGED <<db, env, session, progressModel, budget, popup, content, storage, observed, dev, avail, trace, log>>

\* a sender that reports an empty roster as a failure
WhenEmpty_error(ids) ==
  [ok |-> FALSE, totalRecipients |-> 0, chunks |-> 0, error |-> Err("No recipients", NULL)]

\* if (!ids.length) return { totalRecipients: 0, chunks: 0, results: [] },
\* answered by the router as { ok: true, ...out }
WhenEmpty(ids) ==
  [ok |-> TRUE, totalRecipients |-> 0, chunks |-> 0, error |-> NoErr]

\* sendLinkToCourseStudents up to its loop: the roster, the early return, the chunks
FetchStudents(i) ==
  /\ popup[i].pc = "roster"
  /\ \E o \in {"ok", "users_failed"} :
       LET me == content[i].myId
           ids == Whole(Ids(env, me))
           batches == chunk(ids, Cap(env.sender))
       IN /\ Fault(o, {"ok"})
          /\ budget' = Spend(o, {"ok"})
          /\ popup' = [popup EXCEPT ![i] =
               CASE o # "ok" ->
                      [@ EXCEPT !.pc = "release", !.idx = 1,
                                !.sendResp = [ok |-> FALSE, totalRecipients |-> 0, chunks |-> 0,
                                              error |-> Err(o, 503)]]
                 [] o = "ok" /\ Length(ids) = 0 ->
                      [@ EXCEPT !.pc = IF WhenEmpty(ids).ok THEN "mark" ELSE "release",
                                !.idx = 1, !.sendResp = WhenEmpty(ids)]
                 [] OTHER -> [@ EXCEPT !.pc = "post"]]
          /\ content' = [content EXCEPT ![i] =
               IF o = "ok" /\ Length(ids) > 0
               THEN [IdleContent EXCEPT !.myId = me, !.batches = batches]
               ELSE [IdleContent EXCEPT !.myId = me]]
          /\ trace' = [trace EXCEPT
               ![i].rosterFetched = TRUE,
               ![i].events = IF o = "ok" /\ Length(ids) > 0
                             THEN @ \o <<Plan, Note(1)>> ELSE @]
  /\ UNCHANGED <<db, env, session, progressModel, tab, storage, observed, dev, avail, log>>

\* what postConversation's while loop does with the answer to one POST:
\* "ok" (return), "again" (next attempt of the loop) or "throw" (lastErr leaves it)
PostLoop(pattempt, e) ==
  IF e = NoErr THEN "ok"
  ELSE IF ~shouldRetry(e) /\ e.status # 422 THEN "throw"
  ELSE IF pattempt + 1 < POST_ATTEMPTS THEN "again"
  ELSE "throw"

\* `lastErr ??= e`: the first error is kept
LastErr_first(prev, e) == IF prev = NoErr THEN e ELSE prev

\* `lastErr = e` in the catch of withRetries and of postConversation's loop
LastErr(prev, e) == e

\* the loop left after its first iteration
LoopDone_first(i, batches) == TRUE

\* `for (let i = 0; i < batches.length; i++)` is over after iteration i
LoopDone(i, batches) == i + 1 = Len(batches)

\* a sender that asks the background for the token before every attempt
TokenFor_latest(attempt, csrfToken, fresh) ==
  IF fresh # NoToken THEN fresh ELSE csrfToken

\* postConversation: doPost(csrfToken) on attempt 0, doPost(fresh || csrfToken)
\* on the later attempts
TokenFor(attempt, csrfToken, fresh) ==
  IF attempt = 0 THEN csrfToken
  ELSE IF fresh # NoToken THEN fresh ELSE csrfToken

\* One step of the send loop: the guards of postConversation and, if they pass,
\* one POST /api/v1/conversations with its answer; then the bookkeeping of
\* postConversation, withRetries, the for loop and the router's sendResponse.
PostAttempt(i) ==
  /\ popup[i].pc = "post"
  /\ content[i].attempt <= MaxAttempts
  /\ \E status \in env.answers :
       LET c == content[i]
           p == popup[i]
           batch == c.batches[c.i + 1]
           recipientIds == sendConversationChunk(env.sender, batch)
           refused == PostRefused(env.sender, recipientIds)
           fresh == Chosen(storage[i])
           csrf == TokenFor(c.pattempt, p.csrfToken, fresh)
           e == IF refused THEN Err("refused", NULL) ELSE ErrOf(status)
           inner == IF refused THEN "throw" ELSE PostLoop(c.pattempt, e)
           outer == IF inner = "throw" THEN withRetries(c.attempt, e) ELSE inner
           lastBatch == LoopDone(c.i, c.batches)
       IN /\ (refused => status = 200)
          /\ Fault(status, {200})
          /\ budget' = Spend(status, {200})
          /\ log' = IF refused THEN log
                    ELSE [log EXCEPT !.posts = @ \cup
                           {[inst |-> i, run |-> p.run, chunk |-> c.i + 1,
                             myId |-> c.myId, recipientIds |-> recipientIds,
                             csrf |-> csrf, stored |-> storage[i], status |-> status,
                             seen |-> Len(trace[i].events),
                             attempt |-> c.attempt, pattempt |-> c.pattempt]}]
          /\ trace' = [trace EXCEPT
               ![i].posted = IF inner = "ok" THEN @ + 1 ELSE @,
               ![i].events =
                 IF inner # "ok" THEN @
                 ELSE IF lastBatch THEN Append(@, ChunkDone(c.i))
                 ELSE @ \o <<ChunkDone(c.i), Note(c.i + 2)>>]
          /\ content' = [content EXCEPT ![i] =
               CASE inner = "ok" ->
                      [@ EXCEPT !.i = @ + 1, !.attempt = 0, !.pattempt = 0, !.lastErr = NoErr]
                 [] inner = "again" ->
                      [@ EXCEPT !.pattempt = @ + 1, !.lastErr = LastErr(@, e)]
                 [] outer = "again" ->
                      [@ EXCEPT !.attempt = @ + 1, !.pattempt = 0, !.lastErr = LastErr(@, e)]
                 [] OTHER -> [@ EXCEPT !.lastErr = LastErr(@, e)]]
          /\ popup' = [popup EXCEPT ![i] =
               CASE inner = "ok" /\ lastBatch ->
                      [@ EXCEPT !.pc = "mark", !.idx = 1,
                                !.sendResp = [ok |-> TRUE, totalRecipients |-> Len(Ids(env, c.myId)),
                                              chunks |-> Len(c.batches), error |-> NoErr]]
                 [] inner = "throw" /\ outer = "throw" ->
                      [@ EXCEPT !.pc = "release", !.idx = 1,
                                !.sendResp = [ok |-> FALSE, totalRecipients |-> 0, chunks |-> 0,
                                              error |-> LastErr(c.lastErr, e)]]
                 [] OTHER -> @]
  /\ UNCHANGED <<db, env, session, progressModel, tab, storage, observed, dev, avail>>

(* ---------------------- popup.js: release / mark ----------------------- *)
\* the release loop without its try/catch: a failed release is thrown
AfterRelease_uncaught(p, o) ==
  IF o # "ok" THEN Throw(p, Err("release_failed", NULL))
  ELSE IF p.idx = Len(p.claims) THEN Throw(p, p.sendResp.error)
  ELSE [p EXCEPT !.idx = p.idx + 1]

\* try { await releaseClaim(...) } catch {} ; after the last claim,
\* throw new Error(sendResp?.error || "Send failed")
AfterRelease(p, o) ==
  IF p.idx = Len(p.claims) THEN Throw(p, p.sendResp.error)
  ELSE [p EXCEPT !.idx = p.idx + 1]

\* one iteration of `for (const c of claims) try { await releaseClaim } catch {}`
\* and, after the last one, `throw new Error(sendResp?.error || "Send failed")`
ReleaseStep(i) ==
  /\ popup[i].pc = "release"
  /\ \E o \in Outcomes({"ok", "rpc_failed"}) :
       LET p == popup[i]
           c == p.claims[p.idx]
           last == p.idx = Len(p.claims)
       IN /\ Fault(o, {"ok"})
          /\ budget' = Spend(o, {"ok"})
          /\ db' = IF o = "ok" THEN [db EXCEPT !.rows = releaseClaim(@, c.claimId)] ELSE db
          /\ trace' = [trace EXCEPT ![i].released = Append(@, c.claimId)]
          /\ log' = IF o = "ok" THEN LogRelease(i, c.claimId) ELSE log
          /\ popup' = [popup EXCEPT ![i] =
               IF o = "no_response" THEN Blocked(p) ELSE AfterRelease(p, o)]
  /\ UNCHANGED <<env, session, progressModel, tab, content, storage, observed, dev, avail>>

\* one iteration of `for (const c of claims) { await markSent(...); await delay }`
MarkStep(i) ==
  /\ popup[i].pc = "mark"
  /\ \E o \in Outcomes({"ok", "rpc_failed"}) :
       LET p == popup[i]
           c == p.claims[p.idx]
           last == p.idx = Len(p.claims)
       IN /\ Fault(o, {"ok"})
          /\ budget' = Spend(o, {"ok"})
          /\ db' = IF o = "ok" THEN [db EXCEPT !.rows = markSent(@, c.claimId)] ELSE db
          /\ trace' = [trace EXCEPT ![i].marked = IF o = "ok" THEN Append(@, c.claimId) ELSE @]
          /\ popup' = [popup EXCEPT ![i] =
               IF o = "no_response" THEN Blocked(@)
               ELSE IF o # "ok" THEN Throw(@, Err("mark_sent_failed", NULL))
               ELSE IF last THEN Return(@, "Done: sent")
               ELSE [@ EXCEPT !.idx = p.idx + 1]]
          /\ log' = IF o = "ok" THEN LogSent(i, c.claimId) ELSE log
  /\ UNCHANGED <<env, session, progressModel, tab, content, storage, observed, dev, avail>>

(* ---------------------- the host of a run goes away -------------------- *)
\* the claims a run holds that it has neither marked sent nor released yet
Unsettled(p) ==
  IF p.pc \in {"mark", "release"} THEN SubSeq(p.claims, p.idx, Len(p.claims))
  ELSE IF p.pc \in {"claim", "csrf", "send", "self", "roster", "post"} THEN p.claims
  ELSE <<>>

\* The tab or the browser is closed while handleSendLinkForCourse awaits a
\* call: the run and its content script are gone, nothing of them runs on, and
\* a popup opened later starts from its initial state.
Abandon(i) ==
  /\ Len(Unsettled(popup[i])) > 0
  /\ log' = [log EXCEPT !.leaked = @ \cup
               {[id |-> c.claimId, sid |-> c.sectionId] : c \in Range(Unsettled(popup[i]))}]
  /\ popup' = [popup EXCEPT ![i] = [IdlePopup EXCEPT !.run = popup[i].run]]
  /\ content' = [content EXCEPT ![i] = IdleContent]
  /\ UNCHANGED <<db, env, session, progressModel, tab, budget, storage, observed, dev, avail, trace>>

(* ----------------------- popup.js: availability ----------------------- *)
\* computeCourseAvailability(tab, course): FETCH_SECTIONS, getCourseSends under
\* the key of the label or of "Fall 2025", the claimed set, what remains
computeCourseAvailability(c, allRows) ==
  LET termKey == AvailabilityTermKey(c)
      rows == getCourseSends(allRows, termKey)
      claimed == ClaimedSet(rows)
      allSectionIds == AllSectionIds(c.sections)
      remainingSections == SelectSeqBy(allSectionIds, Range(allSectionIds) \ claimed)
  IN [termKey |-> termKey,
      totalSections |-> Len(allSectionIds),
      availableSections |-> Len(remainingSections),
      remaining |-> Range(remainingSections),
      units |-> ClaimedSet(allRows)]

\* the course list rendering one course: a failed fetch leaves the row as it was
ComputeAvailability(i) ==
  /\ \E o \in {"ok", "sections_failed", "select_failed"} :
       /\ Fault(o, {"ok"})
       /\ budget' = Spend(o, {"ok"})
       /\ avail' = [avail EXCEPT ![i] =
            IF o = "ok" THEN computeCourseAvailability(env, db.rows) ELSE @]
  /\ UNCHANGED <<db, env, session, progressModel, tab, popup, content, storage, observed, dev, trace, log>>

(* ----------------------- developer panel (popup) ----------------------- *)
\* devClaimCourse: the id of the response is cached whether or not the claim was won
DevClaim(i) ==
  /\ budget.devOps > 0
  /\ \E sectionId \in Range(env.sections) \cup {NULL} :
       LET res == claimCourse(db.rows, db.nextId,
                              [sectionId |-> sectionId, termKey |-> DevTermKey(env)])
       IN /\ db' = [rows |-> res.rows, nextId |-> res.nextId]
          /\ dev' = [dev EXCEPT ![i] = IF res.claim.id # NULL THEN res.claim.id ELSE @]
          /\ log' = LogClaim(i, 0, IF sectionId = NULL THEN 0 ELSE sectionId, res.claim)
  /\ budget' = [budget EXCEPT !.devOps = @ - 1]
  /\ UNCHANGED <<env, session, progressModel, tab, popup, content, storage, observed, avail, trace>>

\* devMarkSent
DevMarkSent(i) ==
  /\ budget.devOps > 0
  /\ dev[i] # NULL
  /\ db' = [db EXCEPT !.rows = markSent(@, dev[i])]
  /\ log' = LogSent(i, dev[i])
  /\ budget' = [budget EXCEPT !.devOps = @ - 1]
  /\ UNCHANGED <<env, session, progressModel, tab, popup, content, storage, observed, dev, avail, trace>>

\* devRelease
DevRelease(i) ==
  /\ budget.devOps > 0
  /\ dev[i] # NULL
  /\ db' = [db EXCEPT !.rows = releaseClaim(@, dev[i])]
  /\ log' = LogRelease(i, dev[i])
  /\ budget' = [budget EXCEPT !.devOps = @ - 1]
  /\ UNCHANGED <<env, session, progressModel, tab, popup, content, storage, observed, dev, avail, trace>>

(* --------------------- popup.js: batch send progress ------------------- *)
\* the orders in which the selected courses are sent
Selections == {<<1>>, <<2>>, <<1, 2>>, <<2, 1>>}

\* sendSelectedBtn click handler: resetProgressModel() and the loop over the
\* selected courses, each with the number of batches its roster makes
ClickSend(i) ==
  /\ budget.runs > 0
  /\ session[i].cur > Len(session[i].courses)
  /\ budget' = [budget EXCEPT !.runs = @ - 1]
  /\ \E ids \in Selections, chunks \in [CourseIds -> 0..MaxChunks] :
       session' = [session EXCEPT ![i] =
         [n |-> @.n + 1, courses |-> ids, chunks |-> chunks, cur |-> 1, step |-> 0, sent |-> {}]]
  /\ progressModel' = [progressModel EXCEPT ![i] = EmptyModel]
  /\ UNCHANGED <<db, env, tab, popup, content, storage, observed, dev, avail, trace, log>>

\* sendLinkToCourseStudents of the course being sent emits its next event:
\* SEND_PLAN after chunking, then SEND_CHUNK_DONE after each batch
SenderEmits(i) ==
  LET s == session[i]
  IN /\ s.cur <= Len(s.courses)
     /\ LET c == s.courses[s.cur]
            k == s.chunks[c]
        IN /\ k > 0
           /\ s.step <= k
           /\ session' = [session EXCEPT ![i] =
                [s EXCEPT !.step = @ + 1,
                          !.sent = @ \cup {IF s.step = 0 THEN SendPlan(c, k)
                                           ELSE SendChunkDone(c, s.step, k)}]]
     /\ UNCHANGED <<db, env, tab, progressModel, budget, popup, content, storage, observed,
                    dev, avail, trace, log>>

\* the send of the current course ends, completed or failed, and the loop of
\* the click handler goes on to the next selected course
CourseEnds(i) ==
  /\ session[i].cur <= Len(session[i].courses)
  /\ session' = [session EXCEPT ![i] = [@ EXCEPT !.cur = @ + 1, !.step = 0]]
  /\ UNCHANGED <<db, env, tab, progressModel, budget, popup, content, storage, observed,
                 dev, avail, trace, log>>

\* chrome.runtime.onMessage listener of the popup: an event of the session
\* arrives, in any order and any number of times
OnProgressMessage(i) ==
  /\ \E msg \in session[i].sent :
       progressModel' = [progressModel EXCEPT ![i] =
         IF msg.type = "SEND_PLAN" THEN OnSendPlan(@, msg) ELSE OnSendChunkDone(@, msg)]
  /\ UNCHANGED <<db, env, tab, session, budget, popup, content, storage, observed,
                 dev, avail, trace, log>>

(* ---------------------------- specification ---------------------------- *)
Run(i) ==
  \/ StartRun(i)
  \/ CollectRemaining(i)
  \/ getCurrentUser(i)
  \/ ClaimStep(i)
  \/ GetLatestCsrf(i)
  \/ SendMessage(i)
  \/ FetchProfile(i)
  \/ FetchStudents(i)
  \/ PostAttempt(i)
  \/ ReleaseStep(i)
  \/ MarkStep(i)

\* concurrent runs of the send flow against the shared claim table
Next == \E i \in Inst : Run(i)

Spec == Init /\ [][Next]_vars

\* one run while the popup sends its other commands to tabs on any page
InitRouter ==
  InitWith({ [Course(<<10>>, "capped", 2, FALSE, {200, 503}) EXCEPT !.pages = ps] :
               ps \in {{LmsPage, OtherPage}, {BrandedPage} \cup (Pages \ {LmsPage, OtherPage})} },
           1, 1, 0, 0, "t1")

NextRouter == \E i \in Inst : Run(i) \/ Router(i)

SpecRouter == InitRouter /\ [][NextRouter]_vars

\* one batch send of the popup and the progress events it receives
InitListener == InitWith({Course(<<10>>, "capped", 2, FALSE, {200})}, 1, 0, 0, 0, "t1")

NextListener ==
  \E i \in Inst :
    \/ ClickSend(i)
    \/ SenderEmits(i)
    \/ CourseEnds(i)
    \/ OnProgressMessage(i)

SpecListener == InitListener /\ [][NextListener]_vars

\* one run while the token observer sees traffic; the cache starts empty
InitObserver ==
  InitWith({Course(<<10>>, "capped", 2, FALSE, Statuses)}, 1, 1, MaxObs, 0, NoToken)

NextObserver ==
  \E i \in Inst :
    \/ Run(i)
    \/ OnBeforeSendHeaders(i)
    \/ OnHeadersReceived(i)
    \/ ClearCsrfCache(i)

SpecObserver == InitObserver /\ [][NextObserver]_vars

\* one run beside the developer panels of both instances
InitDev ==
  InitWith({Course(<<10, 20>>, "capped", 2, FALSE, {200, 404})}, 1, 1, 0, MaxDevOps, "t1")

NextDev ==
  \E i \in Inst :
    \/ Run(i)
    \/ DevClaim(i)
    \/ DevMarkSent(i)
    \/ DevRelease(i)

SpecDev == InitDev /\ [][NextDev]_vars

\* one run of two batches whose POSTs may be refused while the token cache changes
InitRotate ==
  InitWith({Course(<<10>>, "capped", MAX_PER_REQUEST + 1, FALSE, {200, 422})},
           1, MaxFaults, MaxRotations, 0, "t1")

SpecRotate == InitRotate /\ [][NextObserver]_vars

\* what a transport may answer to one request, failures of every kind included
RetryAnswers == {200, 404, 422, 429, 500, 502, 503, 504, NULL, ABORT}

\* one run whose requests may fail up to MaxRetryFaults times in any way
InitRetry ==
  InitWith({Course(<<10>>, "capped", 2, FALSE, RetryAnswers)}, 1, MaxRetryFaults, 0, 0, "t1")

SpecRetry == InitRetry /\ [][Next]_vars

\* one run whose every request may fail, however often; each step of a run that
\* is not over is eventually taken (every call responds or times out)
InitLive ==
  InitWith({Course(<<10, 20>>, sender, 2, FALSE, answers) :
              sender \in Senders, answers \in {{200, 503, 404}, {200, 422}}},
           1, Unlimited, 0, 0, "t1")

SpecLive == InitLive /\ [][Next]_vars /\ \A i \in Inst : WF_vars(Run(i))

\* one run against a datastore and an LMS that may leave a request unanswered:
\* fetchWithRetry aborts such a request (ABORT), rpc and dbSelect have no timeout
InitSilent ==
  InitWith({[Course(<<10, 20>>, "capped", 2, FALSE, {200, 404, ABORT}) EXCEPT !.silent = TRUE]},
           1, MaxFaults, 0, 0, "t1")

SpecSilent == InitSilent /\ [][Next]_vars

\* concurrent runs on a course of two sections whose listing has no student:
\* nothing at all, or only the caller and the placeholder accounts
InitEmpty ==
  InitWith({Course(<<10, 20>>, sender, 0, dirty, {200, 404}) :
              sender \in Senders, dirty \in BOOLEAN},
           MaxRuns, MaxFaults, 0, 0, "t1")

SpecEmpty == InitEmpty /\ [][Next]_vars

\* runs that may be abandoned, beside developer panels that can claim and release
InitAbandon ==
  InitWith({Course(<<10>>, "capped", 2, FALSE, {200, 404})},
           2, 1, 0, 2, "t1")

NextAbandon ==
  \E i \in Inst :
    \/ Run(i)
    \/ Abandon(i)
    \/ DevClaim(i)
    \/ DevRelease(i)

SpecAbandon == InitAbandon /\ [][NextAbandon]_vars

\* one run of two batches, whatever becomes of the progress events it emits
InitProgress ==
  InitWith({[Course(<<10, 20>>, sender, Cap(sender) + RosterExtra, FALSE, {200, 404, 503})
               EXCEPT !.events = e] : sender \in Senders, e \in Deliveries},
           1, MaxFaults, 0, 0, "t1")

SpecProgress == InitProgress /\ [][Next]_vars

\* the names a course may carry for its term: none, empty, or a label
TermNames ==
  { NoName, <<>>, Fall2025,
    <<" ", "S", "p", "r", "i", "n", "g", " ", "'", "2", "5", " ">> }

\* one run on a course of any term names, beside the course lists of both
\* instances, which compute the availability of the course
InitTerm ==
  InitWith({[Course(sections, "capped", 2, FALSE, {200, 404})
               EXCEPT !.enrollment_term = a, !.term = b] :
              sections \in {<<>>, <<10, 20>>}, a \in TermNames, b \in TermNames},
           1, 1, 0, 0, "t1")

NextTerm ==
  \E i \in Inst :
    \/ Run(i)
    \/ ComputeAvailability(i)

SpecTerm == InitTerm /\ [][NextTerm]_vars

\* one run for every roster size up to MaxRoster, under either sender
InitSweep ==
  InitWith({Course(<<10>>, sender, size, dirty, {200, 404}) :
              sender \in Senders, size \in 0..MaxRoster, dirty \in BOOLEAN}, 1, 1, 0, 0, "t1")

SpecSweep == InitSweep /\ [][Next]_vars

(* ------------------------------- claims -------------------------------- *)
ClaimIds(i) == [x \in 1..Len(popup[i].claims) |-> popup[i].claims[x].claimId]
Successful == {q \in log.posts : q.status = 200}
Recipients(q) == Range(Elements(env, q.myId, q.recipientIds))

\* C1: of the callers that claim one SendUnit while no row exists for it, exactly
\* one is answered already_exists=false; every other is answered
\* already_exists=true with the id of the winner's row; and the table never holds
\* two rows for one unit.
C1_OneWinnerPerUnit ==
  /\ \A r1, r2 \in db.rows : r1.section_id = r2.section_id => r1 = r2
  /\ \A c1, c2 \in log.claims :
       (~c1.already_exists /\ ~c2.already_exists /\ c1.id = c2.id) => c1 = c2
  /\ \A c \in log.claims :
       c.already_exists =>
         \E w \in log.claims : ~w.already_exists /\ w.id = c.id /\ w.sid = c.sid

C1_Witness ==
  \E c1, c2 \in log.claims :
    /\ c1.inst # c2.inst
    /\ c1.sid = c2.sid /\ c1.id = c2.id
    /\ ~c1.already_exists /\ c2.already_exists

\* C2: no student is a recipient of more than one successfully posted batch,
\* whatever runs of whatever instances posted them.
C2_NoStudentMessagedTwice ==
  \A p, q \in Successful : p # q => Recipients(p) \cap Recipients(q) = {}

\* C4: a claim on a unit whose pending claim was just released is answered
\* already_exists=false with a new pending row.
C4_ReleaseThenClaim ==
  \A c \in log.claims :
    c.freed # NULL => ~c.already_exists /\ c.id # c.freed /\ c.status = "pending"

C4_Witness ==
  \E c \in log.claims : c.freed # NULL /\ ~c.already_exists

\* the run of instance i ended because a batch could not be posted
SendFailed(i) ==
  /\ popup[i].pc = "done"
  /\ trace[i].rosterFetched
  /\ ~popup[i].sendResp.ok
  /\ popup[i].sendResp.error.kind \in {"http", "network"}

\* C5: when a batch fails for good, a release has been attempted for every claim
\* the run won, in spite of failing releases, none of them is marked sent, and
\* the run throws the error of the failed POST.
C5_FailureReleasesAll ==
  \A i \in Inst :
    SendFailed(i) =>
      /\ trace[i].released = ClaimIds(i)
      /\ trace[i].marked = <<>>
      /\ \A x \in 1..Len(popup[i].claims) :
           StatusOf(db.rows, popup[i].claims[x].claimId) # "sent"
      /\ popup[i].result = "thrown"
      /\ popup[i].thrown = content[i].lastErr
      /\ \E q \in PostsOf(i) :
           /\ ErrOf(q.status) = popup[i].thrown
           /\ q.chunk = trace[i].posted + 1

C5_Witness ==
  \E i \in Inst :
    /\ SendFailed(i)
    /\ trace[i].posted = 1
    /\ Len(popup[i].claims) = 2
    /\ StatusOf(db.rows, popup[i].claims[1].claimId) = "pending"
    /\ StatusOf(db.rows, popup[i].claims[2].claimId) = "absent"

\* C6: claims are marked sent only after the last batch was posted, in the order
\* they were won, and a run that ends in success has marked every one of them.
C6_MarkAfterLastBatch ==
  \A i \in Inst :
    /\ trace[i].marked # <<>> =>
         /\ popup[i].sendResp.ok
         /\ trace[i].posted = Len(content[i].batches)
         /\ \A b \in 1..Len(content[i].batches) :
              \E q \in PostsOf(i) : q.chunk = b /\ q.status = 200
    /\ Len(trace[i].marked) <= Len(popup[i].claims)
    /\ trace[i].marked = SubSeq(ClaimIds(i), 1, Len(trace[i].marked))
    /\ (popup[i].pc = "done" /\ popup[i].result = "Done: sent") =>
         /\ trace[i].marked = ClaimIds(i)
         /\ \A x \in 1..Len(popup[i].claims) :
              StatusOf(db.rows, popup[i].claims[x].claimId) = "sent"

C6_Witness ==
  \E i \in Inst :
    /\ popup[i].pc = "done" /\ popup[i].result = "Done: sent"
    /\ Len(popup[i].claims) = 2
    /\ Len(content[i].batches) = 2

\* C7: a run that finds a claim row for every unit of the course issues no claim
\* RPC and no POST, fetches no roster, and ends having sent nothing.
C7_AllTakenSendsNothing ==
  \A i \in Inst :
    trace[i].allTaken =>
      /\ popup[i].pc = "done"
      /\ popup[i].result = "Already sent for all sections."
      /\ trace[i].claimRpcs = 0
      /\ PostsOf(i) = {}
      /\ ~trace[i].rosterFetched
      /\ popup[i].sendResp.totalRecipients = 0 /\ popup[i].sendResp.chunks = 0

C7_Witness ==
  \E i \in Inst :
    /\ trace[i].allTaken
    /\ popup[i].pc = "done"
    /\ Len(env.sections) = 1
    /\ \A r \in db.rows : r.status = "sent"

\* the claim loop of instance i is over and no response said already_exists=false
WonNone(i) ==
  /\ popup[i].pc \notin {"idle", "collect", "profile", "claim"}
  /\ trace[i].claimRpcs > 0
  /\ \A c \in log.claims :
       (c.inst = i /\ c.run = popup[i].run) => c.already_exists

\* C8: a run that won none of its claims posts nothing, fetches no roster, and
\* calls neither markSent nor release.
C8_WonNoneSendsNothing ==
  \A i \in Inst :
    WonNone(i) =>
      /\ popup[i].pc = "done"
      /\ popup[i].result = "Nothing to send - all sections claimed."
      /\ PostsOf(i) = {}
      /\ ~trace[i].rosterFetched
      /\ trace[i].marked = <<>>
      /\ trace[i].released = <<>>

C8_Witness ==
  \E i \in Inst :
    /\ WonNone(i)
    /\ Len(popup[i].sectionIds) = 2
    /\ \A x \in 1..2 :
         \E c \in log.claims :
           c.inst = i /\ c.run = popup[i].run /\ c.sid = popup[i].sectionIds[x]

\* C3: a release issued for a claim that is sent changes nothing: a sent row
\* stays in the table as it is, and no later claim on its unit is won.
C3_SentRowStays ==
  \A id \in log.sent :
    /\ StatusOf(db.rows, id) = "sent"
    /\ \A r \in db.rows, c \in log.claims :
         (r.id = id /\ c.sid = (IF r.section_id = NULL THEN 0 ELSE r.section_id)
            /\ ~c.already_exists) => c.id <= id

C3_Witness ==
  \E r \in log.releases : r.was = "sent" /\ r.id \in log.sent

\* C9: a run that reaches the send step while the token cache holds neither a
\* header nor a cookie token throws the missing-token error and never posts.
C9_NoTokenNoSend ==
  \A i \in Inst :
    (trace[i].csrfAsked /\ trace[i].noToken) =>
      /\ popup[i].pc = "done"
      /\ popup[i].result = "thrown"
      /\ popup[i].thrown = Err("Missing CSRF", NULL)
      /\ PostsOf(i) = {}
      /\ ~trace[i].rosterFetched

C9_Witness ==
  \E i \in Inst :
    /\ trace[i].csrfAsked /\ trace[i].noToken
    /\ Len(popup[i].claims) >= 1

\* C10: every POST to the conversations endpoint carries at least one recipient
\* and at most the cap of the sender in use.
C10_BatchWithinCap ==
  \A q \in log.posts :
    /\ Length(q.recipientIds) >= 1
    /\ Length(q.recipientIds) <= Cap(env.sender)

C10_Witness ==
  \E q1, q2 \in log.posts :
    /\ q1.chunk = 2 /\ Length(q1.recipientIds) = Cap(env.sender)
    /\ q2.chunk = 3 /\ Length(q2.recipientIds) < Cap(env.sender)

(* the answers to the attempts of the run's profile request, and its outcome *)
Gets(i) == trace[i].gets
Retrying(i) == popup[i].pc = "self"
ProfileKnown(i) == content[i].myId = SelfId

\* C11: under the default policy a request answered 503, 503, 200 succeeds on
\* its third attempt, and a request answered 404 fails on its first attempt.
C11_DefaultPolicy ==
  \A i \in Inst :
    /\ (Len(Gets(i)) >= 1 /\ Gets(i)[1] = 404) =>
          Len(Gets(i)) = 1 /\ ~Retrying(i) /\ ~ProfileKnown(i)
    /\ Gets(i) \in {<<503>>, <<503, 503>>} => Retrying(i)
    /\ Gets(i) = <<503, 503, 200>> => ~Retrying(i) /\ ProfileKnown(i)

C11_Witness ==
  \E i \in Inst : Gets(i) = <<503, 503, 200>> /\ ProfileKnown(i)

\* the failures the retry policy names as retryable
Retryable == {NULL, ABORT, 429, 500, 502, 503, 504}

\* C12: a failed attempt that is not the last one the policy allows is retried
\* if and only if it failed without a status, by abort, or with 429 or 5xx.
C12_RetriedIffRetryable ==
  \A i \in Inst :
    \A k \in 1..Len(Gets(i)) :
      (Gets(i)[k] # 200 /\ k < RETRIES + 1) =>
        ((k < Len(Gets(i)) \/ Retrying(i)) <=> Gets(i)[k] \in Retryable)

C12_Witness ==
  \E i \in Inst :
    /\ Len(Gets(i)) = 2 /\ ~Retrying(i)
    /\ Gets(i)[1] = ABORT /\ Gets(i)[2] = 422

\* C13: the retry wrapper invokes the wrapped operation at most RETRIES + 1
\* times, and exactly that often when every attempt fails retryably.
C13_AttemptsCapped ==
  \A i \in Inst :
    /\ Len(Gets(i)) <= RETRIES + 1
    /\ content[i].attempt <= RETRIES
    /\ (Gets(i) # <<>> /\ ~Retrying(i) /\ \A k \in 1..Len(Gets(i)) : Gets(i)[k] \in Retryable)
         => Len(Gets(i)) = RETRIES + 1 /\ ~ProfileKnown(i)

C13_Witness ==
  \E i \in Inst :
    /\ Len(Gets(i)) = RETRIES + 1 /\ ~Retrying(i)
    /\ \A k \in 1..Len(Gets(i)) : Gets(i)[k] \in Retryable
    /\ Cardinality(Range(Gets(i))) = 3

\* C14: a batch POST answered 422 is repeated once with the re-read token; when
\* that POST is answered 422 too, no further POST is made for the batch.
C14_OneRefreshRetry ==
  \A q1, q2 \in log.posts :
    ( /\ q1.inst = q2.inst /\ q1.run = q2.run /\ q1.chunk = q2.chunk
      /\ q1.attempt = q2.attempt
      /\ q1.pattempt = 0 /\ q1.status = 422
      /\ q2.pattempt = 1 /\ q2.status = 422 )
    => ~\E q3 \in log.posts :
          /\ q3.inst = q1.inst /\ q3.run = q1.run /\ q3.chunk = q1.chunk
          /\ (q3.attempt > q1.attempt \/ q3.pattempt > 1)

\* C15: the token a run is given is the stored header value if there is one,
\* otherwise the stored cookie value if there is one, otherwise null.
C15_HeaderThenCookie ==
  \A i \in Inst :
    trace[i].csrfAsked =>
      popup[i].csrfToken =
        (CASE trace[i].asked.csrfHeader # NoToken -> trace[i].asked.csrfHeader
           [] trace[i].asked.csrfHeader = NoToken /\ trace[i].asked.csrfCookie # NoToken ->
                trace[i].asked.csrfCookie
           [] OTHER -> NoToken)

C15_Witness ==
  \E i \in Inst :
    /\ trace[i].csrfAsked
    /\ trace[i].asked.csrfHeader # NoToken
    /\ trace[i].asked.csrfCookie # NoToken
    /\ trace[i].asked.csrfHeader # trace[i].asked.csrfCookie

\* the POSTs a step adds for instance i
NewPosts(i) == {q \in log'.posts \ log.posts : q.inst = i}

\* C16: a run issues its claim RPCs one per step in the order of the remaining
\* list, and its POSTs one per step for the batch the loop is at, every earlier
\* batch having been answered 200; the batch index never goes back.
C16_Sequential ==
  [][\A i \in Inst :
       /\ trace'[i].claimOrder =
            SubSeq(popup'[i].sectionIds, 1, Len(trace'[i].claimOrder))
       /\ popup'[i].run = popup[i].run =>
            /\ Len(trace'[i].claimOrder) <= Len(trace[i].claimOrder) + 1
            /\ content'[i].i >= content[i].i
       /\ Cardinality(NewPosts(i)) <= 1
       /\ \A q \in NewPosts(i) :
            /\ q.run = popup[i].run
            /\ q.chunk = content[i].i + 1
            /\ \A b \in 1..(q.chunk - 1) :
                 \E r \in log.posts :
                   r.inst = i /\ r.run = q.run /\ r.chunk = b /\ r.status = 200
    ]_vars

C16_Witness ==
  \E i \in Inst :
    /\ trace[i].claimOrder = <<10, 20>>
    /\ Len(popup[i].claims) = 2
    /\ \E q \in PostsOf(i) : q.chunk = 2 /\ q.status = 200

\* the run of instance i ended in success
Succeeded(i) == popup[i].pc = "done" /\ popup[i].result = "Done: sent"

\* C17: on success totalRecipients is the number of distinct ids sent to (the
\* ids of the roster), batchCount is ceil(totalRecipients / cap), and the posted
\* batches cut the roster, in its order, into consecutive pieces: one successful
\* POST per batch, batch b carrying positions (b-1)*cap+1 .. b*cap.
C17_SummaryAndPartition ==
  \A i \in Inst :
    Succeeded(i) =>
      LET ids == Ids(env, content[i].myId)
          ok == {q \in PostsOf(i) : q.status = 200}
          cap == Cap(env.sender)
          total == popup[i].sendResp.totalRecipients
      IN /\ total = Cardinality(Range(ids))
         /\ total = Cardinality(UNION {Recipients(q) : q \in ok})
         /\ popup[i].sendResp.chunks = (total + cap - 1) \div cap
         /\ \A b \in 1..popup[i].sendResp.chunks :
              /\ Cardinality({q \in ok : q.chunk = b}) = 1
              /\ \A q \in ok :
                   q.chunk = b =>
                     q.recipientIds = [from |-> (b - 1) * cap + 1, to |-> Min(b * cap, total)]
         /\ \A q \in ok : q.chunk \in 1..popup[i].sendResp.chunks

C17_Witness ==
  \E i \in Inst :
    /\ Succeeded(i)
    /\ env.roster.dirty
    /\ popup[i].sendResp.chunks = 3
    /\ popup[i].sendResp.totalRecipients % Cap(env.sender) # 0

\* C18: every markSent and release call carries an id that a claim response
\* with already_exists=false gave to the same caller.
C18_OnlyOwnClaims ==
  \A k \in log.calls :
    \E c \in log.claims : c.inst = k.inst /\ c.id = k.id /\ ~c.already_exists

\* C19: a run that ended with an error after winning claims has left none of
\* them pending: each is marked sent or released.
C19_ErrorLeavesNonePending ==
  \A i \in Inst :
    (popup[i].pc = "done" /\ popup[i].result = "thrown") =>
      \A x \in 1..Len(popup[i].claims) :
        StatusOf(db.rows, popup[i].claims[x].claimId) # "pending"

\* C20: when the missing-token error is thrown the run has issued no claim RPC.
C20_TokenCheckedFirst ==
  \A i \in Inst :
    (popup[i].result = "thrown" /\ popup[i].thrown = Err("Missing CSRF", NULL)) =>
      trace[i].claimRpcs = 0

\* C21: the recipient ids a run works on hold no id twice, not the caller's own
\* id, and no test-student placeholder account.
C21_CleanRecipientList ==
  \A i \in Inst :
    content[i].batches # <<>> =>
      LET ids == Ids(env, content[i].myId)
      IN /\ Cardinality(Range(ids)) = Len(ids)
         /\ Range(ids) \cap {SelfId, TestStudentId, TestNamedId} = {}

\* C22: every run that was started comes to its end.
C22_RunTerminates ==
  \A i \in Inst : (popup[i].pc # "idle") ~> (popup[i].pc = "done")

C22_Witness ==
  \E i \in Inst :
    /\ popup[i].pc = "done"
    /\ Cardinality({q \in PostsOf(i) : q.chunk = 1 /\ q.status # 200}) = 9

\* C23: from a clear until the next recorded observation the cache holds neither
\* a header nor a cookie token, and the token request is answered null.
C23_ClearedIsEmpty ==
  \A i \in Inst :
    observed[i].cleared # "no" =>
      /\ storage[i].csrfHeader = NoToken
      /\ storage[i].csrfCookie = NoToken
      /\ Chosen(storage[i]) = NoToken

C23_Witness ==
  \E i \in Inst :
    /\ observed[i].cleared = "wiped"
    /\ observed[i].src = "header" /\ observed[i].value = NoToken

\* C26: a request observation changes at most the header slot, to the token it
\* carried, and nothing when it carried none; a response observation changes
\* at most the cookie slot, to the cookie it set, and nothing when it set none.
C26_SlotsIndependent ==
  [][\A i \in Inst :
       /\ OnBeforeSendHeaders(i) =>
            /\ storage'[i].csrfCookie = storage[i].csrfCookie
            /\ storage'[i].csrfHeader =
                 (IF observed'[i].api /\ observed'[i].value # NoToken
                  THEN observed'[i].value ELSE storage[i].csrfHeader)
       /\ OnHeadersReceived(i) =>
            /\ storage'[i].csrfHeader = storage[i].csrfHeader
            /\ storage'[i].csrfCookie =
                 (IF observed'[i].value # NoToken
                  THEN DecodeCookie(observed'[i].value) ELSE storage[i].csrfCookie)
    ]_vars

C26_Witness ==
  \E i \in Inst :
    /\ storage[i].csrfHeader = "t2" /\ storage[i].csrfCookie = "t1"
    /\ observed[i].src = "cookie" /\ observed[i].value = NoToken

\* the units a computation over these sections and rows has to leave
Expected(sections, rows) ==
  (IF sections = <<>> THEN {0} ELSE Range(sections))
    \ {IF r.section_id = NULL THEN 0 ELSE r.section_id : r \in rows}

\* C24: the remaining units a run computes are the course's section ids (0 for
\* a course without sections) that no row of the table carries, a null section
\* id counting as 0, in the order of the course's sections.
C24_RemainingUnits ==
  [][\A i \in Inst :
       (popup[i].pc = "collect" /\ popup'[i].pc # "collect"
          /\ popup'[i].result # "thrown") =>
         LET ids == popup'[i].sectionIds
         IN /\ Range(ids) = Expected(env.sections, db.rows)
            /\ Cardinality(Range(ids)) = Len(ids)
            /\ \A x, y \in 1..Len(ids) :
                 x < y => \E a, b \in 1..Len(env.sections) :
                            a < b /\ env.sections[a] = ids[x] /\ env.sections[b] = ids[y]
            /\ (popup'[i].pc = "done") = (ids = <<>>)
    ]_vars

C24_Witness ==
  \E i \in Inst :
    /\ env.sections = <<>>
    /\ trace[i].allTaken
    /\ \E r \in db.rows : r.section_id = NULL

\* the run of instance i ended because the retries of a batch were given up
GaveUp(i) ==
  /\ popup[i].pc = "done"
  /\ trace[i].rosterFetched
  /\ ~popup[i].sendResp.ok
  /\ popup[i].sendResp.error.kind \in {"http", "network", "abort"}

\* the last POST of the batch the run of instance i failed on
FinalPost(i) ==
  CHOOSE q \in PostsOf(i) :
    /\ q.chunk = trace[i].posted + 1
    /\ \A r \in PostsOf(i) :
         r.chunk = q.chunk =>
           \/ r.attempt < q.attempt
           \/ r.attempt = q.attempt /\ r.pattempt <= q.pattempt

\* C25: the error thrown when the retries are given up is the error of the last
\* attempt, and carries that attempt's HTTP status when it had a response.
C25_LastErrorThrown ==
  \A i \in Inst :
    GaveUp(i) =>
      /\ popup[i].thrown = ErrOf(FinalPost(i).status)
      /\ FinalPost(i).status \notin {NULL, ABORT} =>
           popup[i].thrown.status = FinalPost(i).status

C25_Witness ==
  \E i \in Inst :
    /\ GaveUp(i)
    /\ popup[i].thrown.status = 404
    /\ \E q \in PostsOf(i) : q.status = 503

\* C27: no run is ever left waiting on a call that does not respond.
C27_NoCallBlocks ==
  \A i \in Inst : popup[i].pc # "blocked"

\* a claim RPC of the current run of instance i failed
ClaimRpcFailed(i) ==
  trace[i].claimRpcs >
    Cardinality({c \in log.claims : c.inst = i /\ c.run = popup[i].run})

\* C28: a run one of whose claim RPCs returned an error ends by throwing.
C28_ClaimErrorSurfaced ==
  \A i \in Inst :
    (popup[i].pc = "done" /\ ClaimRpcFailed(i)) => popup[i].result = "thrown"

\* C29: no batch of a run causes more than 3 POSTs.
C29_ThreePostsPerBatch ==
  \A i \in Inst :
    \A b \in 1..Len(content[i].batches) :
      Cardinality({q \in PostsOf(i) : q.chunk = b}) <= 3

\* the token the background hands out for a token cache, GET_LATEST_CSRF
Latest(st) ==
  IF st.csrfHeader # NoToken THEN st.csrfHeader ELSE st.csrfCookie

WonPart(i) == Len(popup[i].claims) < Len(AllSectionIds(env.sections))

\* C31: the roster is fetched once per run, and a run that succeeds has posted
\* to every id of the course roster, whether it won all units of the course or
\* only some of them.
C31_WholeRosterPosted ==
  \A i \in Inst :
    /\ popup[i].pc = "roster" => ~trace[i].rosterFetched
    /\ Succeeded(i) =>
         LET ids == Ids(env, content[i].myId)
             ok == {q \in PostsOf(i) : q.status = 200}
         IN /\ \A q \in ok : q.myId = content[i].myId
            /\ UNION {Range(SubSeq(ids, q.recipientIds.from, q.recipientIds.to)) : q \in ok}
                 = Range(ids)

\* a run that won one of two sections and posted both batches of the roster
C31_Witness ==
  \E i \in Inst :
    /\ Succeeded(i)
    /\ WonPart(i)
    /\ Len(popup[i].claims) = 1
    /\ Len(content[i].batches) = 2
    /\ Cardinality(Range(Ids(env, content[i].myId))) > Cap(env.sender)

\* the roster the current run of instance i fetched had no recipient in it
EmptyRoster(i) ==
  /\ trace[i].rosterFetched
  /\ popup[i].sendResp.error.kind # "users_failed"
  /\ Len(Ids(env, content[i].myId)) = 0

\* C32: a run whose roster is empty after filtering issues no POST, reports 0
\* recipients and 0 batches, releases nothing and goes on to mark its claims in
\* the order won: it ends with every claim it won marked sent, unless a markSent
\* RPC fails, which it throws.
C32_EmptyRosterMarksSent ==
  \A i \in Inst :
    EmptyRoster(i) =>
      /\ PostsOf(i) = {}
      /\ popup[i].sendResp.ok
      /\ popup[i].sendResp.totalRecipients = 0 /\ popup[i].sendResp.chunks = 0
      /\ trace[i].released = <<>>
      /\ popup[i].pc \in {"mark", "done"}
      /\ trace[i].marked = SubSeq(ClaimIds(i), 1, Len(trace[i].marked))
      /\ popup[i].pc = "done" =>
           \/ /\ popup[i].result = "Done: sent"
              /\ trace[i].marked = ClaimIds(i)
              /\ \A x \in 1..Len(popup[i].claims) :
                   StatusOf(db.rows, popup[i].claims[x].claimId) = "sent"
           \/ /\ popup[i].result = "thrown"
              /\ popup[i].thrown.kind = "mark_sent_failed"

\* a capped run whose listing held only the caller and placeholder accounts
\* ended with both sections marked sent
C32_Witness ==
  \E i \in Inst :
    /\ EmptyRoster(i)
    /\ env.roster.dirty /\ env.sender = "capped"
    /\ Succeeded(i)
    /\ Len(popup[i].claims) = 2

\* C33: no availability result counts as available a unit that had a claim row,
\* pending or sent, when the result was computed.
C33_ClaimedIsUnavailable ==
  \A i \in Inst :
    /\ avail[i].remaining \cap avail[i].units = {}
    /\ avail[i].availableSections <= avail[i].totalSections - Cardinality(avail[i].units)

\* C34: a run that found remaining units and is past its claim loop has issued
\* one claim RPC for each of them: the profile lookup before the loop does not
\* end the run.
C34_ProfileLookupNeverAborts ==
  \A i \in Inst :
    (Len(popup[i].sectionIds) > 0 /\ popup[i].pc \notin {"profile", "claim"}) =>
      trace[i].claimRpcs = Len(popup[i].sectionIds)

\* the claims of abandoned runs whose rows are pending
LeakedPending(rows) == {l \in log.leaked : StatusOf(rows, l.id) = "pending"}

C36_EventsFireAndForget ==
  \A i \in Inst : popup[i].sendResp.error.kind # "event"

\* the progress events the current run of instance i has emitted, in order
Events(i) == trace[i].events
\* an event as the popup receives it, and its positions among the emitted ones
Event(type, b) == [type |-> type, chunk |-> b]
At(i, e) == {k \in 1..Len(Events(i)) : Events(i)[k] = e}
\* the SEND_CHUNK_DONE events among them, in order
Dones(i) == SelectSeq(Events(i), LAMBDA e : e.type = "done")

\* C39: SEND_PLAN is emitted once, before the first POST; the note of a batch is
\* emitted before every POST of that batch and its SEND_CHUNK_DONE after the POST
\* that succeeded, before the note and every POST of the next batch; the
\* SEND_CHUNK_DONE events carry 1..k in this order, k being the number of
\* batches that succeeded.
C39_ProgressOrder ==
  \A i \in Inst :
    /\ Cardinality(At(i, Event("plan", 0))) <= 1
    /\ Len(content[i].batches) > 0 => Cardinality(At(i, Event("plan", 0))) = 1
    /\ \A q \in PostsOf(i) :
         /\ \E k \in At(i, Event("plan", 0)) : k <= q.seen
         /\ \E k \in At(i, Event("note", q.chunk)) : k <= q.seen
         /\ \A k \in At(i, Event("done", q.chunk)) : k > q.seen
         /\ q.chunk > 1 => \E k \in At(i, Event("done", q.chunk - 1)) : k <= q.seen
    /\ Dones(i) = [b \in 1..trace[i].posted |-> Event("done", b)]
    /\ \A b \in 1..trace[i].posted :
         /\ Cardinality(At(i, Event("note", b))) = 1
         /\ \A d \in At(i, Event("done", b)) :
              /\ \E q \in PostsOf(i) : q.chunk = b /\ q.status = 200 /\ q.seen < d
              /\ \A k \in At(i, Event("note", b)) : k < d
              /\ \A k \in At(i, Event("note", b + 1)) : k > d

\* both batches of a run went out, the first one at its second POST: the events
\* are the first note, the plan, and a note and a SEND_CHUNK_DONE per batch
C39_Witness ==
  \E i \in Inst :
    /\ Events(i) = << Event("note", 0), Event("plan", 0), Event("note", 1),
                      Event("done", 1), Event("note", 2), Event("done", 2) >>
    /\ \E q \in PostsOf(i) : q.chunk = 1 /\ q.status # 200
    /\ env.events = "rejected"

(* --------------------------------- C37 --------------------------------- *)
\* C37: a command (FETCH_COURSES_FILTERED, FETCH_COURSES, FETCH_SECTIONS,
\* FETCH_SELF, SEND_LINK_TO_COURSE or PING) that the content script receives on a
\* page whose origin is not a Canvas origin is answered with the error
\* "Not on a Canvas origin.", and no HTTP request is made for it: no GET of
\* any handler, and for the send command no profile lookup, no roster fetch
\* and no POST.
C37_NoRequestOffLms ==
  \A i \in Inst :
    (tab[i].cmd # "none" /\ ~isCanvasOrigin(tab[i].page)) =>
      /\ tab[i].response.fields = {"ok", "error"}
      /\ ~tab[i].response.ok
      /\ tab[i].response.error.kind = "Not on a Canvas origin."
      /\ tab[i].requests = 0
      /\ tab[i].cmd = "SEND_LINK_TO_COURSE" =>
           /\ PostsOf(i) = {}
           /\ trace[i].gets = <<>>
           /\ ~trace[i].rosterFetched

\* the send command was refused on a page that is not a Canvas origin and its
\* run has ended, and another tab refused FETCH_SELF
C37_Witness ==
  /\ tab[1].cmd = "SEND_LINK_TO_COURSE"
  /\ ~isCanvasOrigin(tab[1].page)
  /\ popup[1].pc = "done"
  /\ popup[1].sendResp.error = NotCanvas.error
  /\ tab[2].cmd = "FETCH_SELF"
  /\ ~isCanvasOrigin(tab[2].page)
  /\ tab[2].response = NotCanvas

(* --------------------------------- C38 --------------------------------- *)
\* C38: a response on a path of the domain that is not an /api/ path leaves the
\* cookie slot of the token cache unchanged, whatever cookie it sets.
C38_CookieOnlyFromApiPaths ==
  [][\A i \in Inst :
       (OnHeadersReceived(i) /\ ~observed'[i].api) =>
         storage'[i].csrfCookie = storage[i].csrfCookie
    ]_vars

(* --------------------------------- C40 --------------------------------- *)
\* the courses that have an entry in perCourse
Entered(pm) == {c \in CourseIds : pm.perCourse[c].has}

\* C40: however the SEND_PLAN and SEND_CHUNK_DONE events of a batch send arrive
\* (in any order, any number of times, a SEND_CHUNK_DONE before the SEND_PLAN
\* of its course), totalChunksPlanned is the sum of the totalChunks of the
\* entries of perCourse, the overall sentChunks is the sum of their sentChunks
\* and is at most totalChunksPlanned, and within one batch send no course's
\* sentChunks decreases.
C40_ProgressModelConsistent ==
  /\ [](\A i \in Inst :
         LET pm == progressModel[i]
         IN /\ pm.totalChunksPlanned =
                 Sum([c \in CourseIds |-> pm.perCourse[c].totalChunks], Entered(pm))
            /\ pm.sentChunks =
                 Sum([c \in CourseIds |-> pm.perCourse[c].sentChunks], Entered(pm))
            /\ pm.sentChunks <= pm.totalChunksPlanned)
  /\ [][\A i \in Inst :
          session'[i].n = session[i].n =>
            \A c \in CourseIds :
              progressModel'[i].perCourse[c].sentChunks >= progressModel[i].perCourse[c].sentChunks
       ]_vars

\* two courses in the model, the second chunk of one of them counted although
\* its first chunk's event and the other course's plan arrived later or never
C40_Witness ==
  \E i \in Inst :
    /\ progressModel[i].totalChunksPlanned = 2 * MaxChunks
    /\ progressModel[i].sentChunks = MaxChunks + 1
    /\ session[i].cur > Len(session[i].courses)
====
